---- MODULE Spec2Model ----
(***************************************************************************)
(* A model of src/demo.py: the OpenTelemetry demo script.                  *)
(*                                                                         *)
(* The script is one sequential thread.  Its position is pc; a label       *)
(* "Lnnn" is "about to execute (or blocked in) the statement that starts   *)
(* at line nnn of src/demo.py", "L157e" and "L167e" are the ends of the    *)
(* two with-blocks that close at those lines.  Every call into the SDK is  *)
(* one atomic step.  A KeyboardInterrupt (the only asynchronous event the  *)
(* script handles) may be raised at any position of the main thread.  One  *)
(* raised inside a statement, after the statement's effect, is the one     *)
(* raised at the next position; so there is a position wherever the next   *)
(* statement is handled differently: "L132" is the try statement itself    *)
(* (not yet covered by the except clause), "L178" is the end of the except *)
(* block, where main() returns to line 178, "L108e" is shutdown()          *)
(* returning.                                                              *)
(*                                                                         *)
(* A with-statement is not one step for an interrupt.  start_as_current_   *)
(* span is a generator context manager, and there are positions inside     *)
(* the with-statement itself: "L138in" and "L156in" are in its __enter__,  *)
(* the span started and the block not yet entered; "L157out" and "L167out" *)
(* are in its __exit__, the block left and the span not yet ended.  An     *)
(* interrupt raised there leaves the with-statement without its exit       *)
(* having run: the span stays started, not ended and in the context.  Such *)
(* a span is ended when the exception that holds the generator is          *)
(* released: at the end of the except block, or at interpreter exit if the *)
(* handler was interrupted.                                                *)
(*                                                                         *)
(* Numbers: a latency is kept in thousandths of a millisecond (Scale),     *)
(* and so is a sleep duration.  random.random() draws k/RandomDenominator  *)
(* for k in 0 .. RandomDenominator-1.                                      *)
(***************************************************************************)
EXTENDS Integers, Sequences, FiniteSets

VARIABLES
    pc,               \* position of the main thread
    count,            \* main: count
    latency,          \* main: latency (0 before the first sample)
    trace_provider,   \* _trace_provider is not None
    meter_provider,   \* _meter_provider is not None
    logger_provider,  \* _logger_provider is not None
    handlerAttached,  \* the OTel LoggingHandler is on the root logger
    rootLevel,        \* level of the root logger
    atexitFuncs,      \* number of registrations of shutdown with atexit
    atexitLeft,       \* registered callbacks the interpreter has still to run
    hookRuns,         \* number of invocations of shutdown()
    calls,            \* provider methods called by shutdown(), in order
    instruments,      \* names of the instruments created on the meter
    spans,            \* every span started so far, in start order
    active,           \* stack of indices into spans: the current context
    clock,            \* logical time of span events
    latencyAttr,      \* last value given to request.latency_ms
    counterAdds,      \* every add() on demo.requests, in order
    histCount,        \* number of record() calls on demo.latency
    histLast,         \* the last record() on demo.latency
    lastSleep,        \* duration of the last time.sleep
    logs,             \* records that reached the OTel logging handler
    stdout,           \* lines printed
    intLog            \* the pc at which each KeyboardInterrupt was raised

vars == <<pc, count, latency, trace_provider, meter_provider, logger_provider,
          handlerAttached, rootLevel, atexitFuncs, atexitLeft, hookRuns, calls,
          instruments, spans, active, clock, latencyAttr, counterAdds,
          histCount, histLast, lastSleep, logs, stdout, intLog>>

providerVars == <<trace_provider, meter_provider, logger_provider>>
loggingVars  == <<handlerAttached, rootLevel>>
exitVars     == <<atexitFuncs, atexitLeft, hookRuns, calls>>
spanVars     == <<spans, active, clock, latencyAttr>>
metricVars   == <<instruments, counterAdds, histCount, histLast>>

----------------------------------------------------------------------------
(* Bounds of the model *)

MaxCount == 2
RandomDenominator == 19

(* Program constants *)

Scale == 1000
MillisPerSecond == 1000
LatencyLow == 10
LatencyHigh == 200
WarnThreshold == 150
SleepDivisor == 1000
LoopSleepSeconds == 2
DEBUG == 10
INFO == 20
WARNING == 30

----------------------------------------------------------------------------
(* Pure helpers *)

\* random.uniform(a, b) = a + (b - a) * random.random(), random() = k/RandomDenominator
Uniform(a, b, k) == a * Scale + ((b - a) * Scale * k) \div RandomDenominator

RandomDraws == 0 .. (RandomDenominator - 1)

\* line 144: latency > 150
\* (faulty variant: the threshold itself counts as high)
IsHighLatencyInclusive(l) == l >= WarnThreshold * Scale
IsHighLatency(l) == l > WarnThreshold * Scale

\* line 157: time.sleep(latency / 1000): latency / 1000 seconds, in milliseconds
\* (faulty variant: the division by 1000 left out)
ChildSleepWrongUnit(l) == l * MillisPerSecond
ChildSleep(l) == (l * MillisPerSecond) \div SleepDivisor

\* line 170: time.sleep(2): 2 seconds, in milliseconds
LoopSleep == LoopSleepSeconds * MillisPerSecond * Scale

\* logging.Logger.isEnabledFor: the module logger has no level of its own
\* (line 41), so its effective level is the root logger's
IsEnabledFor(level) == level >= rootLevel

\* A record of the module logger reaches the OTel handler when the logger is
\* enabled for its level and the handler (level DEBUG, line 88) is attached
Emitted(level) == handlerAttached /\ IsEnabledFor(level) /\ level >= DEBUG

LogRecord(level, msg, rid) == [level |-> level, msg |-> msg, request_id |-> rid]

\* logger.<level>(msg, extra={"request_id": rid, ...})
Log(level, msg, rid) ==
    logs' = IF Emitted(level) THEN Append(logs, LogRecord(level, msg, rid)) ELSE logs

\* tracer.start_as_current_span(name): the new span's parent is the current span
StartSpan(name) ==
    /\ spans' = Append(spans, [name |-> name,
                               parent |-> IF active = <<>> THEN 0 ELSE active[Len(active)],
                               start |-> clock + 1, end |-> 0, request_id |-> 0])
    /\ active' = Append(active, Len(spans) + 1)
    /\ clock' = clock + 1

\* The span part of the state
SpanState == [spans |-> spans, active |-> active, clock |-> clock]

\* The exit of a with-block of start_as_current_span, for the span at position
\* k of the context: the context is put back to what it was when the block was
\* entered, and the span ends
ExitSpan(r, k) ==
    [spans  |-> [r.spans EXCEPT ![active[k]].end = r.clock + 1],
     active |-> SubSeq(active, 1, k - 1),
     clock  |-> r.clock + 1]

\* Leaving a with-block of start_as_current_span: end the current span
EndSpan ==
    LET r == ExitSpan(SpanState, Len(active))
    IN  /\ spans' = r.spans
        /\ active' = r.active
        /\ clock' = r.clock

\* An exception leaves the with-blocks of the spans at positions 1 .. k of
\* the context, innermost first; the exit of a block in skip does not run
RECURSIVE Unwind(_, _, _)
Unwind(r, k, skip) ==
    IF k = 0 THEN r
    ELSE IF active[k] \in skip THEN Unwind(r, k - 1, skip)
    ELSE Unwind(ExitSpan(r, k), k - 1, skip)

\* The generators of the with-statements that were left without their exit
\* are finalized, the outer one first: each puts the context back to what it
\* was when the span was attached, and ends the span
RECURSIVE Release(_, _)
Release(r, i) ==
    IF i > Len(r.spans) THEN r
    ELSE IF r.spans[i].end # 0 THEN Release(r, i + 1)
    ELSE Release([spans  |-> [r.spans EXCEPT ![i].end = r.clock + 1],
                  active |-> IF r.spans[i].parent = 0 THEN <<>>
                             ELSE <<r.spans[i].parent>>,
                  clock  |-> r.clock + 1], i + 1)

\* The exception that holds the abandoned generators is released
ReleaseSpans ==
    LET r == Release(SpanState, 1)
    IN  /\ spans' = r.spans
        /\ active' = r.active
        /\ clock' = r.clock

----------------------------------------------------------------------------
Init ==
    /\ pc = "L112"
    /\ count = 0
    /\ latency = 0
    /\ trace_provider = FALSE
    /\ meter_provider = FALSE
    /\ logger_provider = FALSE
    /\ handlerAttached = FALSE
    /\ rootLevel = WARNING
    /\ atexitFuncs = 0
    /\ atexitLeft = 0
    /\ hookRuns = 0
    /\ calls = <<>>
    /\ instruments = {}
    /\ spans = <<>>
    /\ active = <<>>
    /\ clock = 0
    /\ latencyAttr = 0
    /\ counterAdds = <<>>
    /\ histCount = 0
    /\ histLast = [value |-> 0, endpoint |-> ""]
    /\ lastSleep = 0
    /\ logs = <<>>
    /\ stdout = <<>>
    /\ intLog = <<>>

----------------------------------------------------------------------------
(* main(), before the try block, and setup_telemetry() *)

\* line 112: print("Starting Python demo ..."), then the call of setup_telemetry
L112 ==
    /\ pc = "L112"
    /\ stdout' = Append(stdout, "starting")
    /\ pc' = "L48"
    /\ UNCHANGED <<count, latency, providerVars, loggingVars, exitVars, spanVars,
                   metricVars, lastSleep, logs, intLog>>

\* lines 48-52: Resource.create
L48 ==
    /\ pc = "L48"
    /\ pc' = "L55"
    /\ UNCHANGED <<count, latency, providerVars, loggingVars, exitVars, spanVars,
                   metricVars, lastSleep, logs, stdout, intLog>>

\* lines 55-59: the tracer provider is built and installed
L55 ==
    /\ pc = "L55"
    /\ trace_provider' = TRUE
    /\ pc' = "L62"
    /\ UNCHANGED <<count, latency, meter_provider, logger_provider, loggingVars,
                   exitVars, spanVars, metricVars, lastSleep, logs, stdout, intLog>>

\* lines 62-78: the meter provider is built and installed
\* (faulty variant: the provider is not stored in the module-level handle)
L62HandleNotKept ==
    /\ pc = "L62"
    /\ pc' = "L81"
    /\ UNCHANGED <<count, latency, providerVars, loggingVars, exitVars, spanVars,
                   metricVars, lastSleep, logs, stdout, intLog>>

L62 ==
    /\ pc = "L62"
    /\ meter_provider' = TRUE
    /\ pc' = "L81"
    /\ UNCHANGED <<count, latency, trace_provider, logger_provider, loggingVars,
                   exitVars, spanVars, metricVars, lastSleep, logs, stdout, intLog>>

\* lines 81-85: the logger provider is built and installed
L81 ==
    /\ pc = "L81"
    /\ logger_provider' = TRUE
    /\ pc' = "L88"
    /\ UNCHANGED <<count, latency, trace_provider, meter_provider, loggingVars,
                   exitVars, spanVars, metricVars, lastSleep, logs, stdout, intLog>>

\* line 88: handler = LoggingHandler(level=logging.DEBUG, ...)
L88 ==
    /\ pc = "L88"
    /\ pc' = "L89"
    /\ UNCHANGED <<count, latency, providerVars, loggingVars, exitVars, spanVars,
                   metricVars, lastSleep, logs, stdout, intLog>>

\* line 89: logging.getLogger().addHandler(handler)
L89 ==
    /\ pc = "L89"
    /\ handlerAttached' = TRUE
    /\ pc' = "L90"
    /\ UNCHANGED <<count, latency, providerVars, rootLevel, exitVars, spanVars,
                   metricVars, lastSleep, logs, stdout, intLog>>

\* line 90: logging.getLogger().setLevel(logging.INFO)
L90 ==
    /\ pc = "L90"
    /\ rootLevel' = INFO
    /\ pc' = "L93"
    /\ UNCHANGED <<count, latency, providerVars, handlerAttached, exitVars, spanVars,
                   metricVars, lastSleep, logs, stdout, intLog>>

\* line 93: atexit.register(shutdown)
\* (faulty variant: the registration left out)
L93NotRegistered ==
    /\ pc = "L93"
    /\ pc' = "L95"
    /\ UNCHANGED <<count, latency, providerVars, loggingVars, exitVars, spanVars,
                   metricVars, lastSleep, logs, stdout, intLog>>

L93 ==
    /\ pc = "L93"
    /\ atexitFuncs' = atexitFuncs + 1
    /\ atexitLeft' = atexitLeft + 1
    /\ pc' = "L95"
    /\ UNCHANGED <<count, latency, providerVars, loggingVars, hookRuns, calls,
                   spanVars, metricVars, lastSleep, logs, stdout, intLog>>

\* line 95: return trace.get_tracer(...), metrics.get_meter(...)
L95 ==
    /\ pc = "L95"
    /\ pc' = "L115"
    /\ UNCHANGED <<count, latency, providerVars, loggingVars, exitVars, spanVars,
                   metricVars, lastSleep, logs, stdout, intLog>>

\* line 115: logger.info("Telemetry initialized", ...)
L115 ==
    /\ pc = "L115"
    /\ Log(INFO, "Telemetry initialized", 0)
    /\ pc' = "L118"
    /\ UNCHANGED <<count, latency, providerVars, loggingVars, exitVars, spanVars,
                   metricVars, lastSleep, stdout, intLog>>

\* lines 118-121: meter.create_counter("demo.requests")
L118 ==
    /\ pc = "L118"
    /\ instruments' = instruments \cup {"demo.requests"}
    /\ pc' = "L122"
    /\ UNCHANGED <<count, latency, providerVars, loggingVars, exitVars, spanVars,
                   counterAdds, histCount, histLast, lastSleep, logs, stdout, intLog>>

\* lines 122-126: meter.create_histogram("demo.latency")
L122 ==
    /\ pc = "L122"
    /\ instruments' = instruments \cup {"demo.latency"}
    /\ pc' = "L128"
    /\ UNCHANGED <<count, latency, providerVars, loggingVars, exitVars, spanVars,
                   counterAdds, histCount, histLast, lastSleep, logs, stdout, intLog>>

\* line 128: print("Sending telemetry data... (Ctrl+C to stop)")
L128 ==
    /\ pc = "L128"
    /\ stdout' = Append(stdout, "sending")
    /\ pc' = "L129"
    /\ UNCHANGED <<count, latency, providerVars, loggingVars, exitVars, spanVars,
                   metricVars, lastSleep, logs, intLog>>

\* line 129: print("Check Grafana at http://localhost:3000")
L129 ==
    /\ pc = "L129"
    /\ stdout' = Append(stdout, "grafana")
    /\ pc' = "L130"
    /\ UNCHANGED <<count, latency, providerVars, loggingVars, exitVars, spanVars,
                   metricVars, lastSleep, logs, intLog>>

\* line 130: logger.info("Demo started ...")
L130 ==
    /\ pc = "L130"
    /\ Log(INFO, "Demo started", 0)
    /\ pc' = "L132"
    /\ UNCHANGED <<count, latency, providerVars, loggingVars, exitVars, spanVars,
                   metricVars, lastSleep, stdout, intLog>>

\* line 132: try: from the next statement on the except clause of line 172 applies
L132 ==
    /\ pc = "L132"
    /\ pc' = "L133"
    /\ UNCHANGED <<count, latency, providerVars, loggingVars, exitVars, spanVars,
                   metricVars, lastSleep, logs, stdout, intLog>>

----------------------------------------------------------------------------
(* main(): the body of the try block, lines 133-170 *)

\* line 133: count = 0
L133 ==
    /\ pc = "L133"
    /\ count' = 0
    /\ pc' = "L135"
    /\ UNCHANGED <<latency, providerVars, loggingVars, exitVars, spanVars,
                   metricVars, lastSleep, logs, stdout, intLog>>

\* lines 134-135: while True: count += 1
\* (faulty variant: count advances by two)
L135SkipTwo ==
    /\ pc = "L135"
    /\ count + 1 < MaxCount
    /\ count' = count + 2
    /\ pc' = "L138"
    /\ UNCHANGED <<latency, providerVars, loggingVars, exitVars, spanVars,
                   metricVars, lastSleep, logs, stdout, intLog>>

L135 ==
    /\ pc = "L135"
    /\ count < MaxCount
    /\ count' = count + 1
    /\ pc' = "L138"
    /\ UNCHANGED <<latency, providerVars, loggingVars, exitVars, spanVars,
                   metricVars, lastSleep, logs, stdout, intLog>>

\* line 138: with tracer.start_as_current_span("demo-operation") as span
L138 ==
    /\ pc = "L138"
    /\ StartSpan("demo-operation")
    /\ pc' = "L138in"
    /\ UNCHANGED <<count, latency, providerVars, loggingVars, exitVars, latencyAttr,
                   metricVars, lastSleep, logs, stdout, intLog>>

\* line 138, __enter__ returns: the block of the parent span is entered
L138in ==
    /\ pc = "L138in"
    /\ pc' = "L139"
    /\ UNCHANGED <<count, latency, providerVars, loggingVars, exitVars, spanVars,
                   metricVars, lastSleep, logs, stdout, intLog>>

\* line 139: latency = random.uniform(10, 200)
L139 ==
    /\ pc = "L139"
    /\ \E k \in RandomDraws : latency' = Uniform(LatencyLow, LatencyHigh, k)
    /\ pc' = "L140"
    /\ UNCHANGED <<count, providerVars, loggingVars, exitVars, spanVars,
                   metricVars, lastSleep, logs, stdout, intLog>>

\* line 140: span.set_attribute("request.id", count); span is the span of line 138
L140 ==
    /\ pc = "L140"
    /\ spans' = [spans EXCEPT ![active[Len(active)]].request_id = count]
    /\ pc' = "L141"
    /\ UNCHANGED <<count, latency, providerVars, loggingVars, exitVars, active, clock,
                   latencyAttr, metricVars, lastSleep, logs, stdout, intLog>>

\* line 141: span.set_attribute("request.latency_ms", latency)
L141 ==
    /\ pc = "L141"
    /\ latencyAttr' = latency
    /\ pc' = "L144"
    /\ UNCHANGED <<count, latency, providerVars, loggingVars, exitVars, spans, active,
                   clock, metricVars, lastSleep, logs, stdout, intLog>>

\* lines 144-153: a warning above the threshold, a debug record otherwise
L144 ==
    /\ pc = "L144"
    /\ IF IsHighLatency(latency)
       THEN Log(WARNING, "High latency detected", count)
       ELSE Log(DEBUG, "Processing request", count)
    /\ pc' = "L156"
    /\ UNCHANGED <<count, latency, providerVars, loggingVars, exitVars, spanVars,
                   metricVars, lastSleep, stdout, intLog>>

\* line 156: with tracer.start_as_current_span("process-data")
L156 ==
    /\ pc = "L156"
    /\ StartSpan("process-data")
    /\ pc' = "L156in"
    /\ UNCHANGED <<count, latency, providerVars, loggingVars, exitVars, latencyAttr,
                   metricVars, lastSleep, logs, stdout, intLog>>

\* line 156, __enter__ returns: the block of the child span is entered
L156in ==
    /\ pc = "L156in"
    /\ pc' = "L157"
    /\ UNCHANGED <<count, latency, providerVars, loggingVars, exitVars, spanVars,
                   metricVars, lastSleep, logs, stdout, intLog>>

\* line 157: time.sleep(latency / 1000)
L157 ==
    /\ pc = "L157"
    /\ lastSleep' = ChildSleep(latency)
    /\ pc' = "L157e"
    /\ UNCHANGED <<count, latency, providerVars, loggingVars, exitVars, spanVars,
                   metricVars, logs, stdout, intLog>>

\* end of the with-block of line 156: its __exit__ is called
L157e ==
    /\ pc = "L157e"
    /\ pc' = "L157out"
    /\ UNCHANGED <<count, latency, providerVars, loggingVars, exitVars, spanVars,
                   metricVars, lastSleep, logs, stdout, intLog>>

\* the __exit__ of the with-statement of line 156 runs: the child span ends
\* (faulty variant: the child span is not ended)
L157outLeavesChildOpen ==
    /\ pc = "L157out"
    /\ pc' = "L160"
    /\ UNCHANGED <<count, latency, providerVars, loggingVars, exitVars, spanVars,
                   metricVars, lastSleep, logs, stdout, intLog>>

L157out ==
    /\ pc = "L157out"
    /\ EndSpan
    /\ pc' = "L160"
    /\ UNCHANGED <<count, latency, providerVars, loggingVars, exitVars, latencyAttr,
                   metricVars, lastSleep, logs, stdout, intLog>>

\* line 160: request_counter.add(1, {"status": "success"})
\* (faulty variant: an add of 2)
L160AddsTwo ==
    /\ pc = "L160"
    /\ counterAdds' = Append(counterAdds, [value |-> 2, status |-> "success"])
    /\ pc' = "L161"
    /\ UNCHANGED <<count, latency, providerVars, loggingVars, exitVars, spanVars,
                   instruments, histCount, histLast, lastSleep, logs, stdout, intLog>>

L160 ==
    /\ pc = "L160"
    /\ counterAdds' = Append(counterAdds, [value |-> 1, status |-> "success"])
    /\ pc' = "L161"
    /\ UNCHANGED <<count, latency, providerVars, loggingVars, exitVars, spanVars,
                   instruments, histCount, histLast, lastSleep, logs, stdout, intLog>>

\* line 161: latency_histogram.record(latency, {"endpoint": "/demo"})
\* (faulty variant: nothing is recorded)
L161Dropped ==
    /\ pc = "L161"
    /\ pc' = "L164"
    /\ UNCHANGED <<count, latency, providerVars, loggingVars, exitVars, spanVars,
                   metricVars, lastSleep, logs, stdout, intLog>>

L161 ==
    /\ pc = "L161"
    /\ histCount' = histCount + 1
    /\ histLast' = [value |-> latency, endpoint |-> "/demo"]
    /\ pc' = "L164"
    /\ UNCHANGED <<count, latency, providerVars, loggingVars, exitVars, spanVars,
                   instruments, counterAdds, lastSleep, logs, stdout, intLog>>

\* lines 164-167: logger.info("Request completed", ...)
L164 ==
    /\ pc = "L164"
    /\ Log(INFO, "Request completed", count)
    /\ pc' = "L167e"
    /\ UNCHANGED <<count, latency, providerVars, loggingVars, exitVars, spanVars,
                   metricVars, lastSleep, stdout, intLog>>

\* end of the with-block of line 138: its __exit__ is called
L167e ==
    /\ pc = "L167e"
    /\ pc' = "L167out"
    /\ UNCHANGED <<count, latency, providerVars, loggingVars, exitVars, spanVars,
                   metricVars, lastSleep, logs, stdout, intLog>>

\* the __exit__ of the with-statement of line 138 runs: the parent span ends
L167out ==
    /\ pc = "L167out"
    /\ EndSpan
    /\ pc' = "L169"
    /\ UNCHANGED <<count, latency, providerVars, loggingVars, exitVars, latencyAttr,
                   metricVars, lastSleep, logs, stdout, intLog>>

\* line 169: print(f"[{count}] Sent trace, metrics, and logs ...")
L169 ==
    /\ pc = "L169"
    /\ stdout' = Append(stdout, "sent")
    /\ pc' = "L170"
    /\ UNCHANGED <<count, latency, providerVars, loggingVars, exitVars, spanVars,
                   metricVars, lastSleep, logs, intLog>>

\* line 170: time.sleep(2), then the next iteration
L170 ==
    /\ pc = "L170"
    /\ lastSleep' = LoopSleep
    /\ pc' = "L135"
    /\ UNCHANGED <<count, latency, providerVars, loggingVars, exitVars, spanVars,
                   metricVars, logs, stdout, intLog>>

----------------------------------------------------------------------------
(* main(): the handler, lines 172-174 *)

\* line 173: logger.info("Shutdown requested by user")
L173 ==
    /\ pc = "L173"
    /\ Log(INFO, "Shutdown requested by user", 0)
    /\ pc' = "L174"
    /\ UNCHANGED <<count, latency, providerVars, loggingVars, exitVars, spanVars,
                   metricVars, lastSleep, stdout, intLog>>

\* line 174: print("\nShutting down...")
L174 ==
    /\ pc = "L174"
    /\ stdout' = Append(stdout, "farewell")
    /\ pc' = "L178"
    /\ UNCHANGED <<count, latency, providerVars, loggingVars, exitVars, spanVars,
                   metricVars, lastSleep, logs, intLog>>

\* the except block ends: the KeyboardInterrupt is released; main() returns to
\* line 178, the script ends and the interpreter exits
L178 ==
    /\ pc = "L178"
    /\ ReleaseSpans
    /\ pc' = "atexit"
    /\ UNCHANGED <<count, latency, providerVars, loggingVars, exitVars, latencyAttr,
                   metricVars, lastSleep, logs, stdout, intLog>>

----------------------------------------------------------------------------
(* shutdown(), lines 98-108, run by the interpreter's atexit machinery *)

\* Interpreter exit: each registered callback is called once; then the
\* interpreter is torn down (an uncaught exception is released then) and the
\* process ends
Finalize ==
    /\ pc = "atexit"
    /\ IF atexitLeft > 0
       THEN /\ atexitLeft' = atexitLeft - 1
            /\ hookRuns' = hookRuns + 1
            /\ pc' = "L100"
            /\ UNCHANGED <<spans, active, clock>>
       ELSE /\ pc' = "exited"
            /\ ReleaseSpans
            /\ UNCHANGED <<atexitLeft, hookRuns>>
    /\ UNCHANGED <<count, latency, providerVars, loggingVars, atexitFuncs, calls,
                   latencyAttr, metricVars, lastSleep, logs, stdout, intLog>>

\* A step of shutdown() that tests a handle
HookTest(here, handle, then, else) ==
    /\ pc = here
    /\ pc' = IF handle THEN then ELSE else
    /\ UNCHANGED <<count, latency, providerVars, loggingVars, exitVars, spanVars,
                   metricVars, lastSleep, logs, stdout, intLog>>

\* A step of shutdown() that calls a method of a provider
HookCall(here, provider, method, next) ==
    /\ pc = here
    /\ calls' = Append(calls, <<provider, method>>)
    /\ pc' = next
    /\ UNCHANGED <<count, latency, providerVars, loggingVars, atexitFuncs, atexitLeft,
                   hookRuns, spanVars, metricVars, lastSleep, logs, stdout, intLog>>

\* line 100: if _logger_provider
L100 == HookTest("L100", logger_provider, "L101", "L103")

\* line 101: _logger_provider.force_flush()
L101 == HookCall("L101", "logger", "force_flush", "L102")

\* line 102: _logger_provider.shutdown()
L102 == HookCall("L102", "logger", "shutdown", "L103")

\* line 103: if _trace_provider
L103 == HookTest("L103", trace_provider, "L104", "L106")

\* line 104: _trace_provider.force_flush()
\* (faulty variant: shutdown() in place of force_flush())
L104ShutsDownFirst == HookCall("L104", "tracer", "shutdown", "L105")
L104 == HookCall("L104", "tracer", "force_flush", "L105")

\* line 105: _trace_provider.shutdown()
L105 == HookCall("L105", "tracer", "shutdown", "L106")

\* line 106: if _meter_provider
L106 == HookTest("L106", meter_provider, "L107", "L108e")

\* line 107: _meter_provider.force_flush()
L107 == HookCall("L107", "meter", "force_flush", "L108")

\* line 108: _meter_provider.shutdown()
L108 == HookCall("L108", "meter", "shutdown", "L108e")

\* shutdown() returns to the atexit machinery
L108e ==
    /\ pc = "L108e"
    /\ pc' = "atexit"
    /\ UNCHANGED <<count, latency, providerVars, loggingVars, exitVars, spanVars,
                   metricVars, lastSleep, logs, stdout, intLog>>

----------------------------------------------------------------------------
(* KeyboardInterrupt *)

\* main() before the body of the try block: lines 112-132 and setup_telemetry
SetupPCs == {"L112", "L48", "L55", "L62", "L81", "L88", "L89", "L90", "L93", "L95",
             "L115", "L118", "L122", "L128", "L129", "L130", "L132"}

\* the body of the try block, lines 133-170
TryPCs == {"L133", "L135", "L138", "L138in", "L139", "L140", "L141", "L144", "L156",
           "L156in", "L157", "L157e", "L157out", "L160", "L161", "L164", "L167e",
           "L167out", "L169", "L170"}

\* the statements whose KeyboardInterrupt the except clause of line 172 catches
\* (faulty variant: the sleep of line 170 outside the try block)
CoveredByTryWithoutLoopSleep == TryPCs \ {"L170"}
CoveredByTry == TryPCs

\* the except block, lines 172-174
HandlerPCs == {"L173", "L174"}

\* the end of the except block, where main() returns to line 178
ReturnPCs == {"L178"}

\* shutdown(), lines 100-108
HookPCs == {"L100", "L101", "L102", "L103", "L104", "L105", "L106", "L107", "L108",
            "L108e"}

\* the positions inside a with-statement of line 138 or 156 itself: in its
\* __enter__ with the span started and the block not entered, or in its __exit__
\* with the block left and the span not yet ended
WithEnterPCs == {"L138in", "L156in"}
WithExitPCs == {"L157out", "L167out"}
WithPCs == WithEnterPCs \cup WithExitPCs

\* the with-blocks the main thread is in, whose exit an exception runs: one
\* for each span of the context while the try block runs, but for the span of
\* the with-statement the thread is inside of
Blocks ==
    IF pc \in WithPCs THEN Len(active) - 1
    ELSE IF pc \in TryPCs THEN Len(active)
    ELSE 0

\* the position in the __exit__ of the with-statement of span i
ExitPC(i) == IF spans[i].name = "demo-operation" THEN "L167out" ELSE "L157out"

\* The further interrupts that make the exits of the blocks in skip not run:
\* one raised in the __exit__ of each of them while the blocks 1 .. k unwind,
\* innermost first
RECURSIVE Further(_, _)
Further(k, skip) ==
    IF k = 0 THEN <<>>
    ELSE (IF active[k] \in skip THEN <<ExitPC(active[k])>> ELSE <<>>)
             \o Further(k - 1, skip)

\* A KeyboardInterrupt is raised in the main thread.  Inside the try block the
\* with-blocks the thread is in unwind, innermost first, and the span of each
\* ends; the span of a with-statement the thread is inside of (in its __enter__
\* or __exit__) stays started and not ended, and so does that of a block in
\* whose __exit__ a further interrupt is raised while it unwinds; then the
\* handler of line 172 takes over.  Elsewhere in main() the exception leaves
\* main() and the interpreter exits; inside shutdown() it ends the callback,
\* and atexit goes on.
KeyboardInterrupt ==
    /\ pc \in SetupPCs \cup TryPCs \cup HandlerPCs \cup ReturnPCs \cup HookPCs
    /\ \E skip \in SUBSET {active[k] : k \in 1 .. Blocks} :
           /\ intLog' = Append(intLog, pc) \o Further(Blocks, skip)
           /\ LET r == Unwind(SpanState, Blocks, skip)
              IN  /\ spans' = r.spans
                  /\ active' = r.active
                  /\ clock' = r.clock
    /\ pc' = IF pc \in CoveredByTry THEN "L173" ELSE "atexit"
    /\ UNCHANGED <<count, latency, providerVars, loggingVars, exitVars, latencyAttr,
                   metricVars, lastSleep, logs, stdout>>

----------------------------------------------------------------------------
(* The script run as a program *)

Setup ==
    \/ L112 \/ L48 \/ L55 \/ L62 \/ L81 \/ L88 \/ L89 \/ L90 \/ L93 \/ L95
    \/ L115 \/ L118 \/ L122 \/ L128 \/ L129 \/ L130 \/ L132

Loop ==
    \/ L133 \/ L135 \/ L138 \/ L138in \/ L139 \/ L140 \/ L141 \/ L144 \/ L156
    \/ L156in \/ L157 \/ L157e \/ L157out \/ L160 \/ L161 \/ L164 \/ L167e
    \/ L167out \/ L169 \/ L170

Handler == L173 \/ L174 \/ L178

Hook ==
    \/ L100 \/ L101 \/ L102 \/ L103 \/ L104 \/ L105 \/ L106 \/ L107 \/ L108
    \/ L108e

Next == Setup \/ Loop \/ Handler \/ Finalize \/ Hook \/ KeyboardInterrupt

Spec == Init /\ [][Next]_vars

----------------------------------------------------------------------------
(* shutdown() applied to every configuration of the three handles: the      *)
(* interpreter exits with shutdown registered once.                          *)

InitHook ==
    /\ pc = "atexit"
    /\ count = 0
    /\ latency = 0
    /\ trace_provider \in BOOLEAN
    /\ meter_provider \in BOOLEAN
    /\ logger_provider \in BOOLEAN
    /\ handlerAttached = FALSE
    /\ rootLevel = WARNING
    /\ atexitFuncs = 1
    /\ atexitLeft = 1
    /\ hookRuns = 0
    /\ calls = <<>>
    /\ instruments = {}
    /\ spans = <<>>
    /\ active = <<>>
    /\ clock = 0
    /\ latencyAttr = 0
    /\ counterAdds = <<>>
    /\ histCount = 0
    /\ histLast = [value |-> 0, endpoint |-> ""]
    /\ lastSleep = 0
    /\ logs = <<>>
    /\ stdout = <<>>
    /\ intLog = <<>>

NextHook == Finalize \/ Hook \/ KeyboardInterrupt

SpecHook == InitHook /\ [][NextHook]_vars

----------------------------------------------------------------------------
(* Vocabulary of the properties *)

Providers == {"logger", "tracer", "meter"}

Configured(p) ==
    CASE p = "logger" -> logger_provider
      [] p = "tracer" -> trace_provider
      [] p = "meter"  -> meter_provider

\* How often shutdown() has called method m of provider p
Called(p, m) == Cardinality({i \in DOMAIN calls : calls[i] = <<p, m>>})

\* Where the first KeyboardInterrupt was raised
FirstInterrupt == IF intLog = <<>> THEN "none" ELSE intLog[1]

InterruptedIn(S) == \E i \in DOMAIN intLog : intLog[i] \in S

\* Some interrupt was raised at a position inside a with-statement itself: the
\* first one, or one raised while the with-blocks unwound
InterruptedInWith == InterruptedIn(WithPCs)

\* The position of the try block: where it stands, or where it was interrupted
IterPC ==
    IF pc \in TryPCs THEN pc
    ELSE IF FirstInterrupt \in TryPCs THEN FirstInterrupt
    ELSE "none"

\* The try block still runs
InLoop == pc \in TryPCs

\* Number of iterations whose body has run to its end
Completed ==
    IF IterPC \in {"L169", "L170", "L135"} THEN count
    ELSE IF IterPC \in {"none", "L133"} THEN 0
    ELSE count - 1

RECURSIVE SumValues(_)
SumValues(adds) ==
    IF adds = <<>> THEN 0 ELSE adds[1].value + SumValues(Tail(adds))

IsParent(i) == spans[i].name = "demo-operation"
IsChild(i)  == spans[i].name = "process-data"
Ended(i)    == spans[i].end # 0

EndedParents == Cardinality({i \in DOMAIN spans : IsParent(i) /\ Ended(i)})

Warnings(n) == {i \in DOMAIN logs : logs[i].level = WARNING /\ logs[i].request_id = n}

AfterSelection == {"L156", "L156in", "L157", "L157e", "L157out", "L160", "L161",
                   "L164", "L167e", "L167out", "L169", "L170"}

----------------------------------------------------------------------------
(* Exit: claims C1, C6, C10 *)

\* C1: shutdown() is never invoked more than once; a run whose (first)
\* interrupt was raised anywhere in the try block (before, inside or between
\* the spans, in either sleep) ends with shutdown() invoked exactly once,
\* and, unless a further interrupt cut the hook short, with exactly one
\* force_flush on every configured provider before the process has exited.
C1_FlushOnInterrupt ==
    /\ hookRuns <= 1
    /\ (pc = "exited" /\ FirstInterrupt \in TryPCs) => hookRuns = 1
    /\ (pc = "exited" /\ FirstInterrupt \in TryPCs /\ ~InterruptedIn(HookPCs)) =>
           \A p \in Providers : Configured(p) /\ Called(p, "force_flush") = 1

C1_Witness ==
    /\ pc = "exited"
    /\ intLog = <<"L157">>
    /\ hookRuns = 1
    /\ \A p \in Providers : Called(p, "force_flush") = 1

IsPrefix(s, t) == Len(s) <= Len(t) /\ SubSeq(t, 1, Len(s)) = s

FlushThenClose(p) ==
    IF Configured(p) THEN << <<p, "force_flush">>, <<p, "shutdown">> >> ELSE << >>

ExpectedCalls ==
    FlushThenClose("logger") \o FlushThenClose("tracer") \o FlushThenClose("meter")

\* C6: the calls of shutdown() are at every moment a prefix of: force_flush then
\* shutdown on the logger provider, then on the tracer provider, then on the
\* meter provider, leaving out the providers whose handle is None; a run of
\* shutdown() that returns has made exactly these calls; no method of a
\* provider is called twice and none of an unconfigured provider is called.
C6_ShutdownOrder ==
    /\ IsPrefix(calls, ExpectedCalls)
    /\ (hookRuns = 1 /\ pc \in {"atexit", "exited"} /\ ~InterruptedIn(HookPCs)) =>
           calls = ExpectedCalls
    /\ \A p \in Providers : \A m \in {"force_flush", "shutdown"} :
           /\ Called(p, m) <= 1
           /\ ~Configured(p) => Called(p, m) = 0
    /\ \A p \in Providers : Called(p, "shutdown") <= Called(p, "force_flush")

C6_Witness ==
    /\ pc = "exited"
    /\ logger_provider /\ ~trace_provider /\ meter_provider
    /\ calls = << <<"logger", "force_flush">>, <<"logger", "shutdown">>,
                  <<"meter", "force_flush">>, <<"meter", "shutdown">> >>

BeforeRegistration == {"L112", "L48", "L55", "L62", "L81", "L88", "L89", "L90", "L93"}

AllProviders == trace_provider /\ meter_provider /\ logger_provider

\* C10: shutdown is registered at most once; it is unregistered exactly while
\* setup_telemetry has not passed line 93 (or was aborted before passing it);
\* line 93 runs with all three providers installed, no instrument created and
\* no span started; instruments and spans exist only once it is registered;
\* whenever shutdown() runs all three handles are set; and a run aborted before
\* line 93 has passed never registers, flushes or closes anything.
C10_HookRegisteredLast ==
    /\ atexitFuncs <= 1
    /\ (atexitFuncs = 0) <=>
           (pc \in BeforeRegistration \/ FirstInterrupt \in BeforeRegistration)
    /\ pc = "L93" => AllProviders /\ handlerAttached
    /\ atexitFuncs = 1 => AllProviders
    /\ (instruments # {} \/ spans # << >>) => atexitFuncs = 1
    /\ atexitFuncs = 0 => instruments = {} /\ spans = << >>
    /\ (hookRuns > 0 \/ pc \in HookPCs) => AllProviders
    /\ FirstInterrupt \in BeforeRegistration =>
           atexitFuncs = 0 /\ hookRuns = 0 /\ calls = << >>

C10_Witness ==
    /\ pc = "L101"
    /\ FirstInterrupt = "L95"
    /\ atexitFuncs = 1
    /\ hookRuns = 1
    /\ AllProviders
    /\ instruments = {}

----------------------------------------------------------------------------
(* The loop: claims C2, C3, C4, C5, C8 *)

Open == {i \in DOMAIN spans : ~Ended(i)}

\* The span of the with-statement inside of which the first interrupt was raised
WithSpan == IF FirstInterrupt = "L167out" THEN Len(spans) - 1 ELSE Len(spans)

\* C2 as stated: in every iteration, cut short or not, the child is ended before
\* the parent is ended: a parent that has ended has its child ended, and ended
\* first.
C2_NestedInEveryIteration ==
    \A i \in DOMAIN spans :
        (IsChild(i) /\ Ended(i - 1)) => Ended(i) /\ spans[i].end < spans[i - 1].end

\* C2 (amended): the spans are parent, child, parent, child, ... in start
\* order.  Every iteration whose body ran to its end has emitted exactly one
\* demo-operation span and exactly one process-data span whose parent it is,
\* the child started after the parent started and ended before the parent
\* ended; the iteration in progress (or cut short by the interrupt) has at most
\* one of each; a span starts only after every span of the earlier iterations
\* has ended; while the loop runs the open spans are those of the context,
\* which is <<parent>> or <<parent, child>>; an iteration cut short by
\* interrupts none of which was raised inside a with-statement itself has its
\* child ended before its parent too and leaves no span open; but after a
\* single interrupt raised inside the with-statement of line 138 or 156 the
\* handler runs with exactly the span of that statement started and not ended.
C2_SpanNesting ==
    /\ Len(spans) >= 2 * Completed
    /\ Len(spans) <= 2 * Completed + 2
    /\ IterPC \in {"L169", "L170", "L135"} => Len(spans) = 2 * count
    /\ \A n \in 1 .. Completed :
           /\ IsParent(2 * n - 1) /\ IsChild(2 * n)
           /\ spans[2 * n].parent = 2 * n - 1
           /\ spans[2 * n - 1].start < spans[2 * n].start
           /\ spans[2 * n].start < spans[2 * n].end
           /\ spans[2 * n].end < spans[2 * n - 1].end
    /\ \A i \in DOMAIN spans :
           IF i % 2 = 1
           THEN /\ IsParent(i)
                /\ spans[i].parent = 0
                /\ \A j \in 1 .. (i - 1) : Ended(j) /\ spans[j].end < spans[i].start
           ELSE /\ IsChild(i)
                /\ spans[i].parent = i - 1
                /\ spans[i - 1].start < spans[i].start
                /\ (~InterruptedInWith /\ Ended(i - 1)) =>
                       Ended(i) /\ spans[i].end < spans[i - 1].end
    /\ InLoop => Open = {active[k] : k \in DOMAIN active}
    /\ Len(active) <= 2
    /\ Len(active) >= 1 => IsParent(active[1]) /\ active[1] >= Len(spans) - 1
    /\ Len(active) = 2 => IsChild(active[2]) /\ active = <<Len(spans) - 1, Len(spans)>>
    /\ (~InLoop /\ ~InterruptedInWith) => Open = {}
    /\ (pc \in HandlerPCs /\ Len(intLog) = 1 /\ FirstInterrupt \in WithPCs) =>
           Open = {WithSpan}

C2_Witness ==
    /\ pc = "L174"
    /\ intLog = <<"L157out">>
    /\ count = 2
    /\ Len(spans) = 4
    /\ spans[1].start < spans[2].start /\ spans[2].end < spans[1].end
    /\ spans[1].end < spans[3].start
    /\ Ended(3)
    /\ Open = {4}

C3_Inv ==
    /\ IterPC \in {"L169", "L170", "L135"} => SumValues(counterAdds) = count
    /\ SumValues(counterAdds) =
           Completed + (IF IterPC \in {"L161", "L164", "L167e", "L167out"} THEN 1 ELSE 0)
    /\ \A i \in DOMAIN counterAdds :
           counterAdds[i] = [value |-> 1, status |-> "success"]
    /\ counterAdds # << >> => "demo.requests" \in instruments

C3_Step ==
    counterAdds' # counterAdds =>
        /\ pc = "L160"
        /\ counterAdds' = Append(counterAdds, [value |-> 1, status |-> "success"])

\* C3: whenever an iteration has run to its end the values added to
\* demo.requests sum to count (one more is added while the iteration's own add
\* has been made and its parent span is still open); every add is of 1 with
\* status=success; and the adds change only by line 160 appending one.
C3_CounterPerIteration == []C3_Inv /\ [][C3_Step]_vars

C3_Witness ==
    /\ pc = "L170"
    /\ count = 2
    /\ SumValues(counterAdds) = 2
    /\ Len(counterAdds) = 2

\* C4: no request has more than one warning record and every warning carries
\* the request id of an iteration; before the selection of lines 144-153 the
\* current iteration has no warning; once the selection has run the iteration
\* has a warning exactly if its latency is strictly above 150.
C4_WarningIffHigh ==
    /\ \A i \in DOMAIN logs :
           logs[i].level = WARNING =>
               /\ logs[i].request_id \in 1 .. count
               /\ logs[i].msg = "High latency detected"
    /\ \A n \in 0 .. count : Cardinality(Warnings(n)) <= 1
    /\ IterPC \in {"L138", "L138in", "L139", "L140", "L141", "L144"} =>
           Warnings(count) = {}
    /\ (IterPC \in AfterSelection \/ (IterPC = "L135" /\ count >= 1)) =>
           ((Warnings(count) # {}) <=> (latency > WarnThreshold * Scale))

C4_Witness ==
    /\ pc = "L156"
    /\ count = 2
    /\ latency = WarnThreshold * Scale
    /\ Warnings(2) = {}
    /\ Warnings(1) # {}

C5_Inv ==
    /\ IterPC \in {"L169", "L170", "L135"} => histCount = count
    /\ histCount = Completed + (IF IterPC \in {"L164", "L167e", "L167out"} THEN 1 ELSE 0)
    /\ histCount > 0 =>
           /\ histLast.value >= LatencyLow * Scale
           /\ histLast.value < LatencyHigh * Scale
           /\ histLast.endpoint = "/demo"
           /\ "demo.latency" \in instruments
    /\ IterPC \in {"L164", "L167e", "L167out", "L169", "L170"} =>
           /\ histLast.value = latency
           /\ latencyAttr = latency
           /\ lastSleep = latency
           /\ (Warnings(count) # {}) <=> (latency > WarnThreshold * Scale)

C5_Step ==
    /\ latency' # latency => pc = "L139" /\ count' = count
    /\ histCount' # histCount =>
           pc = "L161" /\ histCount' = histCount + 1 /\ latency' = latency

\* C5: whenever an iteration has run to its end demo.latency has count samples;
\* every sample is in [10, 200) with endpoint=/demo; from the record of line 161
\* to the end of the iteration the sample, the request.latency_ms attribute and
\* the duration of the child's sleep (latency/1000 s, that is latency ms) all
\* equal latency, and the warning was chosen by it; latency changes only at
\* line 139 and a sample is recorded only at line 161.
C5_OneSamplePerIteration == []C5_Inv /\ [][C5_Step]_vars

C5_Witness ==
    /\ pc = "L164"
    /\ count = 2
    /\ histCount = 2
    /\ histLast.value = latency
    /\ lastSleep = latency
    /\ latencyAttr = latency

NumParents == Cardinality({i \in DOMAIN spans : IsParent(i)})

IterationMessages == {"High latency detected", "Processing request", "Request completed"}

C8_Inv ==
    /\ count >= 0
    /\ NumParents = (IF IterPC = "L138" THEN count - 1 ELSE count)
    /\ \A i \in DOMAIN spans :
           IF IsParent(i)
           THEN /\ spans[i].request_id \in {0, (i + 1) \div 2}
                /\ ((i + 1) \div 2 <= Completed) => spans[i].request_id = (i + 1) \div 2
           ELSE spans[i].request_id = 0
    /\ IterPC \in {"L141", "L144"} \cup AfterSelection =>
           spans[2 * count - 1].request_id = count
    /\ \A i \in DOMAIN logs :
           IF logs[i].msg \in IterationMessages
           THEN logs[i].request_id \in 1 .. count
           ELSE logs[i].request_id = 0
    /\ \A n \in 1 .. Completed :
           Cardinality({i \in DOMAIN logs : logs[i].msg = "Request completed"
                                            /\ logs[i].request_id = n}) = 1

C8_Step ==
    /\ count' # count => pc = "L135" /\ count' = count + 1
    /\ (logs' # logs /\ pc \in {"L144", "L164"}) =>
           /\ Len(logs') = Len(logs) + 1
           /\ logs'[Len(logs')].request_id = count
           /\ logs'[Len(logs')].request_id = spans[active[1]].request_id

\* C8: count changes only at line 135, by +1, so it is the number of the
\* iteration (the n-th demo-operation span is started with count = n); the n-th
\* parent span carries no request.id other than n, and carries n once line 140
\* has run; every record logged inside an iteration carries the count of that
\* iteration, which is the request.id of the span then open; records logged
\* outside the loop carry none.
C8_CountIdentifiesIteration == []C8_Inv /\ [][C8_Step]_vars

C8_Witness ==
    /\ pc = "L167e"
    /\ count = 2
    /\ spans[1].request_id = 1
    /\ spans[3].request_id = 2
    /\ logs[Len(logs)] = LogRecord(INFO, "Request completed", 2)

----------------------------------------------------------------------------
(* Interrupts and the metrics' place in the iteration: claims C7, C9 *)

Farewells == {i \in DOMAIN stdout : stdout[i] = "farewell"}

\* C7 as stated: a run that was interrupted once, anywhere in main(), and has
\* exited has printed the farewell message.
C7_CaughtAnywhereInMain ==
    (pc = "exited" /\ Len(intLog) = 1 /\ FirstInterrupt \in SetupPCs \cup TryPCs) =>
        Farewells # {}

C7_Inv ==
    /\ (Len(intLog) = 1 /\ FirstInterrupt \in TryPCs) =>
           pc \in HandlerPCs \/ Farewells # {}
    /\ (pc = "exited" /\ Len(intLog) = 1 /\ FirstInterrupt \in TryPCs) =>
           /\ Cardinality(Farewells) = 1
           /\ stdout[Len(stdout)] = "farewell"
    /\ FirstInterrupt \in SetupPCs =>
           /\ Farewells = {}
           /\ pc \in {"atexit", "exited"} \cup HookPCs
           /\ count = 0 /\ spans = << >> /\ counterAdds = << >> /\ histCount = 0
    /\ Farewells # {} => FirstInterrupt \in TryPCs
    /\ pc \notin SetupPCs \cup TryPCs => intLog # << >>
    /\ intLog # << >> => pc \notin SetupPCs \cup TryPCs

C7_Step ==
    intLog # << >> =>
        /\ count' = count
        /\ Len(spans') = Len(spans)
        /\ \A i \in DOMAIN spans :
               spans'[i].name = spans[i].name /\ spans'[i].start = spans[i].start
        /\ counterAdds' = counterAdds
        /\ histCount' = histCount
        /\ histLast' = histLast

\* C7 (amended): an interrupt raised inside the try block (lines 133-170) is
\* caught: the handler runs and the run prints the farewell message once, as its
\* last line, before it exits; an interrupt raised in main() before the try
\* block (lines 112-132) is not caught: no farewell is printed, no iteration
\* ever starts and the interpreter exits; after an interrupt count, the counter
\* and the histogram never change again and no span is started; and the try
\* block is left only by an interrupt.
C7_CaughtInsideTry == []C7_Inv /\ [][C7_Step]_vars

C7_Witness ==
    /\ pc = "exited"
    /\ intLog = <<"L170">>
    /\ count = 2
    /\ stdout[Len(stdout)] = "farewell"
    /\ Len(spans) = 4
    /\ histCount = 2

BeforeAdd == {"L138in", "L139", "L140", "L141", "L144", "L156", "L156in", "L157",
              "L157e", "L157out", "L160"}

\* C9 as stated: an iteration interrupted before its add has ended all its
\* spans when the handler runs; in every reachable state the counter total
\* equals the number of histogram samples, and the ended parent spans exceed it
\* by 0 or 1.
C9_MetricsInEveryState ==
    /\ (pc \in HandlerPCs /\ FirstInterrupt \in BeforeAdd) => Open = {}
    /\ SumValues(counterAdds) = histCount
    /\ EndedParents - SumValues(counterAdds) \in {0, 1}

OpenParents == {i \in Open : IsParent(i)}

AddMade == {"L161", "L164", "L167e", "L167out"}

C9_Inv ==
    /\ SumValues(counterAdds) - histCount \in {0, 1}
    /\ (SumValues(counterAdds) - histCount = 1) <=> IterPC = "L161"
    /\ EndedParents - SumValues(counterAdds) \in {-1, 0, 1}
    /\ (EndedParents - SumValues(counterAdds) = -1) <=>
           (IterPC \in AddMade /\ OpenParents # {})
    /\ (EndedParents - SumValues(counterAdds) = 1) <=>
           (FirstInterrupt \in BeforeAdd /\ OpenParents = {})
    /\ (intLog # << >> /\ ~InterruptedInWith) => Open = {}
    /\ (pc \in HandlerPCs /\ Len(intLog) = 1 /\ FirstInterrupt \in WithPCs) => Open # {}
    /\ FirstInterrupt \in BeforeAdd \cup {"L138"} =>
           SumValues(counterAdds) = count - 1 /\ histCount = count - 1

C9_Step ==
    (counterAdds' # counterAdds \/ histCount' # histCount) =>
        /\ Len(active) = 1
        /\ IsParent(active[1])
        /\ Len(spans) = active[1] + 1
        /\ IsChild(Len(spans)) /\ Ended(Len(spans))
        /\ active' = active
        /\ spans' = spans

\* C9 (amended): the counter add and the histogram record happen only with the
\* iteration's child span ended and its parent span the one open span; an
\* iteration interrupted before its add records no metric, and has ended every
\* span it started when the handler runs unless an interrupt was raised inside
\* a with-statement itself, whose span is then still open; the counter total
\* exceeds the number of histogram samples by 0 or 1, by 1 exactly between
\* line 160 and line 161 (or after an interrupt raised there); the ended parent
\* spans minus the counter total is -1, 0 or 1: -1 exactly while the iteration's
\* add is made and its parent still open, 1 exactly when an iteration was
\* interrupted between the parent's start and the add and its parent has ended.
C9_MetricsInsideParent == []C9_Inv /\ [][C9_Step]_vars

C9_Witness ==
    /\ pc = "L164"
    /\ count = 2
    /\ EndedParents = 1
    /\ SumValues(counterAdds) = 2
    /\ histCount = 2

====
